---- MODULE Spec2Model ----
(***************************************************************************)
(* A model of the `sat` crate: the Instance builder (src/src/lib.rs), the  *)
(* DIMACS encoder and the MiniSAT-output decoder and the process adapter   *)
(* (src/src/solver/dimacs.rs).  Text is modelled as a sequence of          *)
(* one-character strings, so that formatting and parsing are computed the  *)
(* way the code computes them.                                             *)
(***************************************************************************)
EXTENDS Integers, Sequences, FiniteSets, TLC

VARIABLES
    num_vars,      \* Instance.num_vars
    cnf_clauses,   \* Instance.cnf_clauses
    fresh_log,     \* the literals fresh_var has returned to the caller, in order
    foreign,       \* some literal given to assert_any did not come from this Instance
    writer,        \* the stream handed to the last write_instance call by the caller
    pc,            \* position of the caller / of Dimacs::solve
    in_file,       \* content of solve's input temp file
    out_file,      \* content of solve's output temp file / of the decoded stream
    argv,          \* the arguments the child was spawned with
    child,         \* "none" | "running" | "exited"
    exit_status,   \* the child's exit status, once it has exited
    result,        \* what read_solution / solve produced
    held,          \* the Assignment the caller keeps (let a = s.solve(&i).unwrap())
    got,           \* the last Assignment::get call and what it gave
    gen            \* how the solver output was put together (preamble, tokens, line break)

vars == <<num_vars, cnf_clauses, fresh_log, foreign, writer, pc, in_file, out_file,
          argv, child, exit_status, result, held, got, gen>>

(***************************************************************************)
(* Bounds of the model.                                                    *)
(***************************************************************************)
MaxVars == 3
MaxClauses == 3
MaxSolveVars == 2
MaxSolveClauses == 2
MaxDecodeVars == 2
MaxToks == 2

(***************************************************************************)
(* Characters and decimal text.                                            *)
(***************************************************************************)
NL == "\n"
SP == " "
DigitChars == <<"0", "1", "2", "3", "4", "5", "6", "7", "8", "9">>

IsDigit(c) == \E d \in 1..10 : DigitChars[d] = c
DigitVal(c) == (CHOOSE d \in 1..10 : DigitChars[d] = c) - 1

\* core::fmt::Display for usize, as used by write!("{}")
RECURSIVE fmt_usize(_)
fmt_usize(n) ==
    IF n < 10 THEN <<DigitChars[n + 1]>>
    ELSE fmt_usize(n \div 10) \o <<DigitChars[(n % 10) + 1]>>

\* core::fmt::Display for isize
fmt_isize(i) == IF i < 0 THEN <<"-">> \o fmt_usize(-i) ELSE fmt_usize(i)

(***************************************************************************)
(* Literals, src/src/lib.rs.                                               *)
(***************************************************************************)
Literal(v, n) == [var |-> v, negated |-> n]

\* impl ops::Not for Literal
Not(l) == [l EXCEPT !.negated = ~l.negated]

Xor(a, b) == a # b

(***************************************************************************)
(* Assignment::get: lit.negated ^ (!self.assignment[lit.var].negated);     *)
(* the Vec index panics when lit.var is not below the length.              *)
(***************************************************************************)
get_ignores_polarity(a, lit) ==
    IF lit.var < Len(a)
    THEN [fault |-> FALSE, value |-> ~a[lit.var + 1].negated]
    ELSE [fault |-> TRUE, value |-> FALSE]

get_unchecked(a, lit) ==
    IF lit.var < Len(a)
    THEN [fault |-> FALSE, value |-> Xor(lit.negated, ~a[lit.var + 1].negated)]
    ELSE [fault |-> FALSE, value |-> ~lit.negated]

get(a, lit) ==
    IF lit.var < Len(a)
    THEN [fault |-> FALSE, value |-> Xor(lit.negated, ~a[lit.var + 1].negated)]
    ELSE [fault |-> TRUE, value |-> FALSE]

(***************************************************************************)
(* Dimacs::write_instance.                                                 *)
(***************************************************************************)
\* let n = (l.var + 1) as isize; if l.negated { -n } else { n }
lit_token_zero_based(l) == IF l.negated THEN -(l.var) ELSE l.var

lit_token(l) == IF l.negated THEN -(l.var + 1) ELSE l.var + 1

\* for l in c { write!(writer, "{} ", ...) }  write!(writer, "0\n")
RECURSIVE write_lits(_)
write_lits(c) ==
    IF c = <<>> THEN <<>>
    ELSE fmt_isize(lit_token(Head(c))) \o <<SP>> \o write_lits(Tail(c))

write_clause(c) == write_lits(c) \o <<"0", NL>>

RECURSIVE write_clauses(_)
write_clauses(cs) ==
    IF cs = <<>> THEN <<>>
    ELSE write_clause(Head(cs)) \o write_clauses(Tail(cs))

write_instance(w, nv, cs) ==
    w \o <<"p", SP, "c", "n", "f", SP>> \o fmt_usize(nv) \o <<SP>>
      \o fmt_usize(Len(cs)) \o <<NL>> \o write_clauses(cs)

(***************************************************************************)
(* Dimacs::read_solution and the std pieces it is built from.              *)
(***************************************************************************)
Whitespace == {SP, NL, "\t", "\r"}

\* BufRead::read_line: everything up to and including the first newline, or
\* up to the end of the stream when there is none.
NlPos(s) ==
    IF \E i \in 1..Len(s) : s[i] = NL
    THEN CHOOSE i \in 1..Len(s) : s[i] = NL /\ \A j \in 1..(i - 1) : s[j] # NL
    ELSE 0

read_line(s) ==
    LET p == NlPos(s) IN
    IF p = 0 THEN [line |-> s, rest |-> <<>>]
    ELSE [line |-> SubSeq(s, 1, p), rest |-> SubSeq(s, p + 1, Len(s))]

\* str::split_whitespace: the maximal runs of non-whitespace characters
RECURSIVE split_ws(_, _)
split_ws(s, cur) ==
    IF s = <<>> THEN (IF cur = <<>> THEN <<>> ELSE <<cur>>)
    ELSE IF Head(s) \in Whitespace
         THEN (IF cur = <<>> THEN <<>> ELSE <<cur>>) \o split_ws(Tail(s), <<>>)
         ELSE split_ws(Tail(s), Append(cur, Head(s)))

split_whitespace(line) == split_ws(line, <<>>)

RECURSIVE digits_value(_, _)
digits_value(ds, acc) ==
    IF ds = <<>> THEN acc
    ELSE digits_value(Tail(ds), 10 * acc + DigitVal(Head(ds)))

\* isize::from_str: an optional sign, then one or more decimal digits
from_str(tok) ==
    IF tok = <<>> THEN [ok |-> FALSE, val |-> 0]
    ELSE LET signed == Head(tok) \in {"+", "-"}
             ds == IF signed THEN Tail(tok) ELSE tok
         IN IF ds = <<>> \/ \E k \in 1..Len(ds) : ~IsDigit(ds[k])
            THEN [ok |-> FALSE, val |-> 0]
            ELSE [ok |-> TRUE,
                  val |-> IF Head(tok) = "-" THEN -digits_value(ds, 0)
                          ELSE digits_value(ds, 0)]

\* line == "UNSAT\n"
is_unsat_header_trimmed(line) ==
    split_whitespace(line) = << <<"U", "N", "S", "A", "T">> >>

is_unsat_header(line) == line = <<"U", "N", "S", "A", "T", NL>>

\* assert!(line == "SAT\n", ...)
is_sat_header_trimmed(line) == split_whitespace(line) = << <<"S", "A", "T">> >>

is_sat_header(line) == line = <<"S", "A", "T", NL>>

\* the body of the token loop for one parsed token i, on the scan state st:
\*   if i == 0 { continue }  if i < 0 { assignment[(-i - 1) as usize].negated = true }
apply_token_lenient(st, i) ==
    IF i >= 0 THEN st
    ELSE IF (-i) - 1 >= Len(st.asg) THEN st
    ELSE [st EXCEPT !.asg[-i] = [@ EXCEPT !.negated = TRUE]]

apply_token_resetting(st, i) ==
    IF i = 0 THEN st
    ELSE IF i < 0
         THEN IF (-i) - 1 >= Len(st.asg)
              THEN [st EXCEPT !.fault = TRUE, !.why = "index"]
              ELSE [st EXCEPT !.asg[-i] = [@ EXCEPT !.negated = TRUE]]
         ELSE IF i - 1 >= Len(st.asg) THEN st
              ELSE [st EXCEPT !.asg[i] = [@ EXCEPT !.negated = FALSE]]

apply_token_off_by_one(st, i) ==
    IF i >= 0 THEN st
    ELSE IF -i >= Len(st.asg)
         THEN [st EXCEPT !.fault = TRUE, !.why = "index"]
         ELSE [st EXCEPT !.asg[(-i) + 1] = [@ EXCEPT !.negated = TRUE]]

apply_token(st, i) ==
    IF i >= 0 THEN st
    ELSE IF (-i) - 1 >= Len(st.asg)
         THEN [st EXCEPT !.fault = TRUE, !.why = "index"]
         ELSE [st EXCEPT !.asg[-i] = [@ EXCEPT !.negated = TRUE]]

\* for tok in line.split_whitespace() { let i = isize::from_str(tok).unwrap(); ... }
RECURSIVE scan_tokens(_, _)
scan_tokens(toks, st) ==
    IF toks = <<>> \/ st.fault THEN st
    ELSE LET p == from_str(Head(toks)) IN
         IF ~p.ok THEN [st EXCEPT !.fault = TRUE, !.why = "parse"]
         ELSE scan_tokens(Tail(toks), apply_token(st, p.val))

\* loop { line.clear(); if reader.read_line(&mut line).unwrap() == 0 { break } ... }
RECURSIVE scan_lines(_, _)
scan_lines(rest, st) ==
    IF rest = <<>> \/ st.fault THEN st
    ELSE LET r == read_line(rest) IN
         scan_lines(r.rest, scan_tokens(split_whitespace(r.line), st))

\* (0..num_vars).map(|i| Literal { var: i, negated: false }).collect()
initial_assignment(nv) == [i \in 1..nv |-> Literal(i - 1, FALSE)]

NotRun == [kind |-> "NotRun", assignment |-> <<>>, why |-> ""]
None == [kind |-> "None", assignment |-> <<>>, why |-> ""]
Some(a) == [kind |-> "Some", assignment |-> a, why |-> ""]
Fault(w) == [kind |-> "Fault", assignment |-> <<>>, why |-> w]

read_solution(s, nv) ==
    LET h == read_line(s) IN
    IF is_unsat_header(h.line) THEN None
    ELSE IF ~is_sat_header(h.line) THEN Fault("header")
    ELSE LET st == scan_lines(h.rest,
                     [fault |-> FALSE, why |-> "", asg |-> initial_assignment(nv)])
         IN IF st.fault THEN Fault(st.why) ELSE Some(st.asg)

(***************************************************************************)
(* Inputs of the model: the literals and clauses a caller passes, and the  *)
(* output streams a solver program may leave behind.                       *)
(***************************************************************************)
ForeignVar == 11

X == Literal(0, FALSE)
Y == Literal(1, FALSE)
Z == Literal(2, FALSE)

\* the clauses of tests/smoke_test.rs and examples/print_dimacs.rs, the empty
\* clause, a tautology and a clause over a literal of another Instance
ClausePool ==
    { <<>>, <<X>>, <<Y>>, <<Not(Y)>>, <<X, Z>>, <<Not(X), Not(Y), Not(Z)>>,
      <<X, Y>>, <<Not(X), Not(Y)>>, <<X, Not(X)>>,
      <<Literal(ForeignVar, TRUE), X>> }

SolvePool ==
    { <<X, Y>>, <<Not(X), Not(Y)>>, <<Y>>, <<Not(Y)>>, <<X, Z>>,
      <<Not(X), Not(Y), Not(Z)>> }

\* a token of a solver's output: its text, and the integer it denotes if any
IntTok(i) == [isint |-> TRUE, val |-> i, text |-> fmt_isize(i)]
JunkToks ==
    { [isint |-> FALSE, val |-> 0, text |-> <<"x">>],
      [isint |-> FALSE, val |-> 0, text |-> <<"-">>],
      [isint |-> TRUE, val |-> -1, text |-> <<"-", "0", "1">>],
      [isint |-> TRUE, val |-> 12, text |-> <<"1", "2">>],
      [isint |-> TRUE, val |-> -10, text |-> <<"-", "1", "0">>] }

TokPool(nv) == {IntTok(i) : i \in (-(nv + 1))..(nv + 1)} \cup JunkToks

SatNl == <<"S", "A", "T", NL>>
UnsatNl == <<"U", "N", "S", "A", "T", NL>>
Preambles ==
    { SatNl, UnsatNl, <<>>, <<"S", "A", "T">>, <<"U", "N", "S", "A", "T">>,
      <<"s", "a", "t", NL>>, <<NL>> \o SatNl, <<NL>> \o UnsatNl,
      <<"S", "A", "T", SP, NL>> }

RECURSIVE JoinToks(_)
JoinToks(ts) ==
    IF ts = <<>> THEN <<>>
    ELSE IF Len(ts) = 1 THEN Head(ts).text
    ELSE Head(ts).text \o <<SP>> \o JoinToks(Tail(ts))

TokLine(ts) == IF ts = <<>> THEN <<>> ELSE JoinToks(ts) \o <<NL>>

\* the stream: the preamble, then the tokens on one line, or on two lines
\* with the break after token brk
Render(g) ==
    g.pre \o TokLine(SubSeq(g.toks, 1, g.brk))
          \o TokLine(SubSeq(g.toks, g.brk + 1, Len(g.toks)))

Gen(p, t, b, nv) == [pre |-> p, toks |-> t, brk |-> b, nv |-> nv]
NoGen == Gen(<<>>, <<>>, 0, 0)

\* g is a stream for an expected count of nv variables: any preamble, up to
\* MaxToks tokens of TokPool(nv), on one line or two
IsDecodeGen(g) ==
    \E nv \in 0..MaxDecodeVars, p \in Preambles, k \in 0..MaxToks :
        \E t \in [1..k -> TokPool(nv)] :
            \E b \in 0..(IF k = 0 THEN 0 ELSE k - 1) : g = Gen(p, t, b, nv)

\* a MiniSAT answer for the three variables of tests/smoke_test.rs:
\* SAT\n-1 2 -3 0\n
ExampleGen == Gen(SatNl, <<IntTok(-1), IntTok(2), IntTok(-3), IntTok(0)>>, 0, 3)

\* what a solver program may write for an instance of nv variables: a full
\* list of signed variables ended by 0 (the MiniSAT format), UNSAT, nothing,
\* or something malformed
FullToks(N, nv) ==
    [k \in 1..(nv + 1) |->
        IF k = nv + 1 THEN IntTok(0)
        ELSE IF (k - 1) \in N THEN IntTok(-k) ELSE IntTok(k)]

ChildGens(nv) ==
    {Gen(SatNl, FullToks(N, nv), 0, nv) : N \in SUBSET (0..(nv - 1))}
    \cup { Gen(UnsatNl, <<>>, 0, nv),
           Gen(<<"S", "A", "T">>, <<>>, 0, nv),
           Gen(SatNl, <<IntTok(-(nv + 1)), IntTok(0)>>, 0, nv),
           Gen(SatNl, <<IntTok(nv + 1), IntTok(0)>>, 0, nv),
           Gen(SatNl, <<IntTok(-1), IntTok(0)>>, 0, nv) }

CmdFactories == { <<"minisat">> }
InPath == "in.tmp"
OutPath == "out.tmp"

(***************************************************************************)
(* The program.                                                            *)
(***************************************************************************)
NoAssignment == [some |-> FALSE, assignment |-> <<>>]
NoGet == [some |-> FALSE, lit |-> X, res |-> [fault |-> FALSE, value |-> FALSE]]

Range(f) == {f[i] : i \in DOMAIN f}

\* Instance::new(), the caller holding nothing yet
Init ==
    /\ num_vars = 0
    /\ cnf_clauses = <<>>
    /\ fresh_log = <<>>
    /\ foreign = FALSE
    /\ writer = <<>>
    /\ pc = "idle"
    /\ in_file = <<>>
    /\ out_file = <<>>
    /\ argv = <<>>
    /\ child = "none"
    /\ exit_status = 0
    /\ result = NotRun
    /\ held = NoAssignment
    /\ got = NoGet
    /\ gen = NoGen

\* Instance::fresh_var, for at most cap variables
FreshVar_skipping(cap) ==
    /\ pc = "idle"
    /\ num_vars < cap
    /\ num_vars' = num_vars + 1
    /\ fresh_log' = Append(fresh_log, Literal(num_vars + 1, FALSE))
    /\ writer' = <<>>
    /\ got' = NoGet
    /\ UNCHANGED <<cnf_clauses, foreign, pc, in_file, out_file, argv, child,
                   exit_status, result, held, gen>>

FreshVar(cap) ==
    /\ pc = "idle"
    /\ num_vars < cap
    /\ num_vars' = num_vars + 1
    /\ fresh_log' = Append(fresh_log, Literal(num_vars, FALSE))
    /\ writer' = <<>>
    /\ got' = NoGet
    /\ UNCHANGED <<cnf_clauses, foreign, pc, in_file, out_file, argv, child,
                   exit_status, result, held, gen>>

\* Instance::assert_any(lits), for at most cap clauses
AssertAny(lits, cap) ==
    /\ pc = "idle"
    /\ Len(cnf_clauses) < cap
    /\ cnf_clauses' = Append(cnf_clauses, lits)
    /\ foreign' = (foreign \/ \E k \in 1..Len(lits) :
                                 Literal(lits[k].var, FALSE) \notin Range(fresh_log))
    /\ writer' = <<>>
    /\ got' = NoGet
    /\ UNCHANGED <<num_vars, fresh_log, pc, in_file, out_file, argv, child,
                   exit_status, result, held, gen>>

\* Dimacs::write_instance(&mut writer, &instance), called by the caller on a
\* fresh stream (examples/print_dimacs.rs)
WriteInstance ==
    /\ pc = "idle"
    /\ writer = <<>>
    /\ writer' = write_instance(writer, num_vars, cnf_clauses)
    /\ got' = NoGet
    /\ UNCHANGED <<num_vars, cnf_clauses, fresh_log, foreign, pc, in_file, out_file,
                   argv, child, exit_status, result, held, gen>>

\* Assignment::get(lit) on the Assignment the caller holds
Get(lit) ==
    /\ pc = "idle"
    /\ held.some
    /\ LET r == get(held.assignment, lit) IN
         /\ got' = [some |-> TRUE, lit |-> lit, res |-> r]
         /\ pc' = IF r.fault THEN "aborted" ELSE pc
    /\ UNCHANGED <<num_vars, cnf_clauses, fresh_log, foreign, writer, in_file,
                   out_file, argv, child, exit_status, result, held, gen>>

\* Dimacs::read_solution(&mut reader, num_vars) called directly on a stream;
\* the caller keeps the Assignment it gets
ReadSolution ==
    /\ pc = "idle"
    /\ result = NotRun
    /\ LET r == read_solution(out_file, gen.nv) IN
         /\ result' = r
         /\ pc' = IF r.kind = "Fault" THEN "aborted" ELSE "idle"
         /\ held' = IF r.kind = "Some"
                    THEN [some |-> TRUE, assignment |-> r.assignment] ELSE held
    /\ got' = NoGet
    /\ UNCHANGED <<num_vars, cnf_clauses, fresh_log, foreign, writer, in_file,
                   out_file, argv, child, exit_status, gen>>

(***************************************************************************)
(* Dimacs::solve, one action per step of src/src/solver/dimacs.rs:109-127, *)
(* and the child process it spawns.  The Instance is borrowed for the      *)
(* whole call, so the builder's operations wait for pc = "idle".  A panic  *)
(* (unwrap, assert!, an index out of bounds) ends the caller: "aborted".   *)
(***************************************************************************)
\* tempfile::NamedTempFile::new().unwrap(), twice
SolveCreate ==
    /\ pc = "idle"
    /\ got' = NoGet
    /\ \/ /\ pc' = "created"
          /\ in_file' = <<>>
          /\ out_file' = <<>>
          /\ result' = NotRun
       \/ /\ pc' = "aborted"
          /\ result' = Fault("tempfile")
          /\ UNCHANGED <<in_file, out_file>>
    /\ UNCHANGED <<num_vars, cnf_clauses, fresh_log, foreign, writer, argv, child,
                   exit_status, held, gen>>

\* self.write_instance(&mut in_file, instance)
SolveEncode ==
    /\ pc = "created"
    /\ in_file' = write_instance(in_file, num_vars, cnf_clauses)
    /\ pc' = "encoded"
    /\ UNCHANGED <<num_vars, cnf_clauses, fresh_log, foreign, writer, out_file, argv,
                   child, exit_status, result, held, got, gen>>

\* (self.cmd_factory)().arg(in_file.path()).arg(out_file.path()).spawn().unwrap()
SolveSpawn ==
    /\ pc = "encoded"
    /\ \E base \in CmdFactories :
         /\ argv' = base \o <<InPath, OutPath>>
         /\ \/ /\ pc' = "spawned"
               /\ child' = "running"
               /\ UNCHANGED result
            \/ /\ pc' = "aborted"
               /\ result' = Fault("spawn")
               /\ UNCHANGED child
    /\ UNCHANGED <<num_vars, cnf_clauses, fresh_log, foreign, writer, in_file,
                   out_file, exit_status, held, got, gen>>

\* the solver program writes its answer to the output path
ChildWrite(g) ==
    /\ child = "running"
    /\ out_file = <<>>
    /\ gen = NoGen
    /\ gen' = g
    /\ out_file' = Render(g)
    /\ UNCHANGED <<num_vars, cnf_clauses, fresh_log, foreign, writer, pc, in_file,
                   argv, child, exit_status, result, held, got>>

\* the solver program terminates; MiniSAT exits with 10 or 20, not 0
ChildExit(status) ==
    /\ child = "running"
    /\ child' = "exited"
    /\ exit_status' = status
    /\ UNCHANGED <<num_vars, cnf_clauses, fresh_log, foreign, writer, pc, in_file,
                   out_file, argv, result, held, got, gen>>

\* let _ = ....wait(): blocks until the child has terminated; the status is dropped
SolveWait_not_blocking ==
    /\ pc = "spawned"
    /\ pc' = "waited"
    /\ UNCHANGED <<num_vars, cnf_clauses, fresh_log, foreign, writer, in_file,
                   out_file, argv, child, exit_status, result, held, got, gen>>

SolveWait ==
    /\ pc = "spawned"
    /\ child = "exited"
    /\ pc' = "waited"
    /\ UNCHANGED <<num_vars, cnf_clauses, fresh_log, foreign, writer, in_file,
                   out_file, argv, child, exit_status, result, held, got, gen>>

\* self.read_solution(&mut out_file, instance.num_vars)
SolveDecode ==
    /\ pc = "waited"
    /\ LET r == read_solution(out_file, num_vars) IN
         /\ result' = r
         /\ pc' = IF r.kind = "Fault" THEN "aborted" ELSE "done"
    /\ UNCHANGED <<num_vars, cnf_clauses, fresh_log, foreign, writer, in_file,
                   out_file, argv, child, exit_status, held, got, gen>>

\* solve returns: the temp files and the child handle go out of scope; the
\* caller keeps the first Assignment it is given (tests/smoke_test.rs:23) and
\* only looks at later results (smoke_test.rs:29)
SolveReturn ==
    /\ pc = "done"
    /\ pc' = "idle"
    /\ held' = IF ~held.some /\ result.kind = "Some"
               THEN [some |-> TRUE, assignment |-> result.assignment] ELSE held
    /\ result' = NotRun
    /\ in_file' = <<>>
    /\ out_file' = <<>>
    /\ argv' = <<>>
    /\ child' = "none"
    /\ exit_status' = 0
    /\ gen' = NoGen
    /\ UNCHANGED <<num_vars, cnf_clauses, fresh_log, foreign, writer, got>>

ExitStatuses == {0, 10}

\* the literals the caller has: those fresh_var returned, and their negations
OwnLits == Range(fresh_log) \cup {Not(l) : l \in Range(fresh_log)}

\* the clauses of SolvePool the caller can write with its own literals
OwnClauses == {c \in SolvePool : \A k \in 1..Len(c) : c[k] \in OwnLits}

\* literals of some Instance, for probing a decoded Assignment
ProbeLits == {Literal(v, n) : v \in 0..MaxDecodeVars, n \in BOOLEAN}

(***************************************************************************)
(* Specifications.                                                         *)
(***************************************************************************)
\* a caller that builds an Instance, solves it with an external program,
\* queries the Assignment and goes on building and solving
Next ==
    \/ FreshVar(MaxSolveVars)
    \/ \E c \in OwnClauses : AssertAny(c, MaxSolveClauses)
    \/ SolveCreate
    \/ SolveEncode
    \/ SolveSpawn
    \/ \E g \in ChildGens(num_vars) : ChildWrite(g)
    \/ \E st \in ExitStatuses : ChildExit(st)
    \/ SolveWait
    \/ SolveDecode
    \/ SolveReturn
    \/ \E l \in OwnLits : Get(l)

Spec == Init /\ [][Next]_vars

\* a caller that builds an Instance and prints it
NextBuild ==
    \/ FreshVar(MaxVars)
    \/ \E c \in ClausePool : AssertAny(c, MaxClauses)
    \/ WriteInstance

SpecBuild == Init /\ [][NextBuild]_vars

\* read_solution applied to the streams IsDecodeGen describes, and to ExampleGen
InitDecode ==
    /\ num_vars = 0
    /\ cnf_clauses = <<>>
    /\ fresh_log = <<>>
    /\ foreign = FALSE
    /\ writer = <<>>
    /\ pc = "idle"
    /\ in_file = <<>>
    /\ (IsDecodeGen(gen) \/ gen = ExampleGen)
    /\ out_file = Render(gen)
    /\ argv = <<>>
    /\ child = "none"
    /\ exit_status = 0
    /\ result = NotRun
    /\ held = NoAssignment
    /\ got = NoGet

NextDecode ==
    \/ ReadSolution
    \/ \E l \in ProbeLits : Get(l)

SpecDecode == InitDecode /\ [][NextDecode]_vars

(***************************************************************************)
(* The properties.  The operators of this part restate the documented      *)
(* behaviour in its own terms; the model above does not use them.          *)
(***************************************************************************)
\* decimal text of 0..99, and of its negative
Numeral(n) ==
    IF n < 10 THEN <<DigitChars[n + 1]>>
    ELSE <<DigitChars[(n \div 10) + 1], DigitChars[(n % 10) + 1]>>
SignedNumeral(i) == IF i < 0 THEN <<"-">> \o Numeral(-i) ELSE Numeral(i)

\* the signed 1-based number of a literal
Code(l) == IF l.negated THEN -(l.var + 1) ELSE l.var + 1

RECURSIVE Concat(_)
Concat(ss) == IF ss = <<>> THEN <<>> ELSE Head(ss) \o Concat(Tail(ss))

ExpectedClauseLine(c) ==
    Concat([k \in 1..Len(c) |-> SignedNumeral(Code(c[k])) \o <<SP>>]) \o <<"0", NL>>

ExpectedDimacs(nv, cs) ==
    <<"p", SP, "c", "n", "f", SP>> \o Numeral(nv) \o <<SP>> \o Numeral(Len(cs)) \o <<NL>>
        \o Concat([j \in 1..Len(cs) |-> ExpectedClauseLine(cs[j])])

ScenarioClauses == << <<X, Z>>, <<Not(X), Not(Y), Not(Z)>>, <<Y>> >>

\* p cnf 3 3\n1 3 0\n-1 -2 -3 0\n2 0\n
ScenarioDimacs ==
    <<"p", SP, "c", "n", "f", SP, "3", SP, "3", NL,
      "1", SP, "3", SP, "0", NL,
      "-", "1", SP, "-", "2", SP, "-", "3", SP, "0", NL,
      "2", SP, "0", NL>>

Abs(i) == IF i < 0 THEN -i ELSE i

Decoded == result.kind # "NotRun"

\* the tokens of g are a 0-terminated list of signed 1-based variables that
\* describes a model of the clauses cs over nv variables
DescribesModel(g, nv, cs) ==
    /\ g.pre = SatNl
    /\ g.toks # <<>>
    /\ g.toks[Len(g.toks)].val = 0
    /\ \A k \in 1..Len(g.toks) : g.toks[k].isint /\ Abs(g.toks[k].val) <= nv
    /\ \A i, j \in 1..Len(g.toks) :
          g.toks[i].val # 0 => g.toks[i].val # -(g.toks[j].val)
    /\ \A c \in 1..Len(cs) : \E k \in 1..Len(cs[c]), t \in 1..Len(g.toks) :
          g.toks[t].val = Code(cs[c][k])

\* C1: when the instance's literals are all below num_vars and the solver
\* wrote SAT and a 0-terminated token list describing a model of the
\* instance, solve returns Some(a) and every clause has a literal l with
\* a.get(l) = true.
C1_SolveReturnsModel ==
    (pc \in {"done", "aborted"}
       /\ (\A c \in 1..Len(cnf_clauses) : \A k \in 1..Len(cnf_clauses[c]) :
              cnf_clauses[c][k].var < num_vars)
       /\ DescribesModel(gen, num_vars, cnf_clauses))
    => /\ pc = "done"
       /\ result.kind = "Some"
       /\ \A c \in 1..Len(cnf_clauses) : \E k \in 1..Len(cnf_clauses[c]) :
             get(result.assignment, cnf_clauses[c][k]) = [fault |-> FALSE, value |-> TRUE]

C1_Witness ==
    /\ pc = "done"
    /\ result.kind = "Some"
    /\ cnf_clauses = << <<X, Y>>, <<Not(X), Not(Y)>> >>
    /\ DescribesModel(gen, num_vars, cnf_clauses)

\* C2: read_solution returns None exactly when the first line of the stream
\* is UNSAT\n, whatever follows; every other stream gives Some or a fault.
C2_NoneIffUnsat ==
    Decoded =>
        /\ result.kind \in {"None", "Some", "Fault"}
        /\ (result.kind = "None") <=> (gen.pre = UnsatNl)

C2_Witness ==
    /\ result.kind = "None"
    /\ \E k \in 1..Len(gen.toks) : ~gen.toks[k].isint

\* C3: write_instance emits the header p cnf <num_vars> <clauses>, then one
\* line per clause in order, each literal as var+1 or -(var+1) followed by a
\* space, ended by 0 and a newline; no literal token is 0; also for literals
\* not below num_vars and for empty clauses; and the scenario instance gives
\* p cnf 3 3\n1 3 0\n-1 -2 -3 0\n2 0\n.
C3_WriteInstanceExact ==
    writer # <<>> =>
        /\ writer = ExpectedDimacs(num_vars, cnf_clauses)
        /\ \A c \in 1..Len(cnf_clauses) : \A k \in 1..Len(cnf_clauses[c]) :
              SignedNumeral(Code(cnf_clauses[c][k])) # <<"0">>
        /\ (num_vars = 3 /\ cnf_clauses = ScenarioClauses) => writer = ScenarioDimacs

C3_Witness ==
    /\ writer = ScenarioDimacs
    /\ num_vars = 3
    /\ cnf_clauses = ScenarioClauses

C3_WitnessForeign ==
    /\ writer # <<>>
    /\ \E c \in 1..Len(cnf_clauses) : cnf_clauses[c] = <<>>
    /\ \E c \in 1..Len(cnf_clauses) : \E k \in 1..Len(cnf_clauses[c]) :
          cnf_clauses[c][k].var >= num_vars

\* a token the documentation calls malformed: not an integer, or a non-zero
\* integer whose variable index is outside [1, num_vars]
BadToken(t, nv) == ~t.isint \/ (t.val # 0 /\ Abs(t.val) > nv)

\* a token the code rejects: not an integer, or a negative integer whose
\* variable index is above num_vars
RejectedToken(t, nv) == ~t.isint \/ (t.val < 0 /\ -(t.val) > nv)

C4_Witness ==
    /\ gen.pre = SatNl
    /\ result.kind = "Fault"
    /\ result.why = "index"
    /\ \A k \in 1..Len(gen.toks) : gen.toks[k].isint

RECURSIVE FirstNonEmptyLine(_)
FirstNonEmptyLine(s) ==
    IF s = <<>> THEN <<>>
    ELSE IF Head(s) = NL THEN FirstNonEmptyLine(Tail(s))
    ELSE IF \E i \in 1..Len(s) : s[i] = NL
         THEN SubSeq(s, 1, CHOOSE i \in 1..Len(s) :
                               s[i] = NL /\ \A j \in 1..(i - 1) : s[j] # NL)
         ELSE s

HeaderFault == result.kind = "Fault" /\ result.why = "header"

\* C5 as stated: the header is the first non-empty line, leading empty lines
\* being skipped; it must be exactly SAT\n or UNSAT\n, anything else is a
\* decode fault.
C5_Original ==
    Decoded => (HeaderFault <=> FirstNonEmptyLine(out_file) \notin {SatNl, UnsatNl})

\* C5 as amended: the header is the first line of the stream, an empty first
\* line included; it must be exactly SAT\n or UNSAT\n, anything else (an
\* empty line, wrong case, extra characters, no newline, an empty stream) is
\* a decode fault.
C5_FirstLineIsHeader ==
    Decoded => (HeaderFault <=> gen.pre \notin {SatNl, UnsatNl})

C5_Witness ==
    /\ HeaderFault
    /\ gen.pre = <<NL>> \o SatNl

\* C6 as stated: a.get(l) = l.negated XOR (NOT a.get(p)), p the non-negated
\* literal of l's variable.
C6_Original ==
    (got.some /\ ~got.res.fault) =>
        got.res.value =
            Xor(got.lit.negated,
                ~get(held.assignment, Literal(got.lit.var, FALSE)).value)

\* C6 as amended: a.get(l) = l.negated XOR a.get(p).
C6_PolarityLaw ==
    (got.some /\ ~got.res.fault) =>
        got.res.value =
            Xor(got.lit.negated,
                get(held.assignment, Literal(got.lit.var, FALSE)).value)

C6_Witness ==
    /\ got.some
    /\ ~got.res.fault
    /\ got.lit.negated
    /\ got.res.value

\* C7: for a SAT output whose tokens are all integers in range, read_solution
\* returns an Assignment of num_vars entries in which variable v is false
\* exactly when the token -(v+1) occurs somewhere after the header, whatever
\* the lines and whatever positive tokens say; SAT\n-1 2 -3 0\n for three
\* variables gives x false, y true, z false.
C7_NegativeTokensDecide ==
    (Decoded /\ gen.pre = SatNl
        /\ \A k \in 1..Len(gen.toks) : ~BadToken(gen.toks[k], gen.nv))
    => /\ result.kind = "Some"
       /\ Len(result.assignment) = gen.nv
       /\ \A v \in 0..(gen.nv - 1) :
             /\ ~get(result.assignment, Literal(v, FALSE)).fault
             /\ (get(result.assignment, Literal(v, FALSE)).value = FALSE)
                   <=> \E k \in 1..Len(gen.toks) : gen.toks[k].val = -(v + 1)
       /\ gen = ExampleGen =>
             /\ get(result.assignment, X) = [fault |-> FALSE, value |-> FALSE]
             /\ get(result.assignment, Y) = [fault |-> FALSE, value |-> TRUE]
             /\ get(result.assignment, Z) = [fault |-> FALSE, value |-> FALSE]

C7_Witness ==
    /\ result.kind = "Some"
    /\ gen.brk = 1
    /\ gen.toks = <<IntTok(-1), IntTok(1)>>
    /\ ~get(result.assignment, X).value

C7_WitnessExample ==
    /\ result.kind = "Some"
    /\ gen = ExampleGen

\* the steps of solve, in order; a panic leaves from where it happens
SolveOrder ==
    { <<"idle", "created">>, <<"created", "encoded">>, <<"encoded", "spawned">>,
      <<"spawned", "waited">>, <<"waited", "done">>, <<"done", "idle">>,
      <<"idle", "aborted">>, <<"encoded", "aborted">>, <<"waited", "aborted">> }

\* C8: solve creates the temp files, encodes the Instance into the input
\* file, spawns the child with the input path and the output path as its last
\* two arguments, blocks until the child has terminated and only then decodes
\* the output file; what it returns is read_solution of the output file and
\* num_vars, whatever the child's exit status.
C8_SolveOrder ==
    [][ /\ pc' # pc => <<pc, pc'>> \in SolveOrder
        /\ (pc = "idle" /\ pc' = "created") =>
              (in_file' = <<>> /\ out_file' = <<>> /\ child = "none")
        /\ (pc = "created" /\ pc' = "encoded") =>
              (in_file' = ExpectedDimacs(num_vars, cnf_clauses) /\ child = "none")
        /\ (pc = "encoded" /\ pc' = "spawned") =>
              /\ Len(argv') >= 2
              /\ SubSeq(argv', Len(argv') - 1, Len(argv')) = <<InPath, OutPath>>
              /\ child = "none" /\ child' = "running"
        /\ (pc = "spawned" /\ pc' = "waited") => child = "exited"
        /\ (pc = "waited" /\ pc' # pc) =>
              /\ child = "exited"
              /\ out_file' = out_file
              /\ result' = read_solution(out_file, num_vars)
      ]_vars

C8_Witness ==
    /\ pc = "done"
    /\ exit_status # 0
    /\ result.kind = "Some"
    /\ num_vars = 2

\* C9: num_vars is the number of fresh_var calls; the k-th call returned the
\* non-negated literal of variable k; assert_any leaves num_vars alone,
\* appends one clause and keeps the earlier ones; and if every literal passed
\* came from this Instance, every stored literal is below num_vars.
C9_BuilderInvariants ==
    /\ [](/\ num_vars = Len(fresh_log)
          /\ \A k \in 1..Len(fresh_log) : fresh_log[k] = Literal(k - 1, FALSE)
          /\ ~foreign =>
                \A c \in 1..Len(cnf_clauses) : \A k \in 1..Len(cnf_clauses[c]) :
                    cnf_clauses[c][k].var < num_vars)
    /\ [][ /\ cnf_clauses' # cnf_clauses =>
                /\ num_vars' = num_vars
                /\ fresh_log' = fresh_log
                /\ Len(cnf_clauses') = Len(cnf_clauses) + 1
                /\ SubSeq(cnf_clauses', 1, Len(cnf_clauses)) = cnf_clauses
           /\ num_vars' # num_vars =>
                /\ num_vars' = num_vars + 1
                /\ cnf_clauses' = cnf_clauses
         ]_vars

C9_Witness ==
    /\ num_vars = 3
    /\ ~foreign
    /\ cnf_clauses = ScenarioClauses

\* C10: the Assignment the caller holds keeps the variable count of the solve
\* that made it: later fresh_var, assert_any and solve calls do not change
\* it, so get(l) stays what it was for every l below that count, and get(l)
\* for a variable allocated later aborts with a range fault.
C10_AssignmentFrozen ==
    /\ [][ /\ held.some => held' = held
           /\ (~held.some /\ held'.some) => Len(held'.assignment) = num_vars
         ]_vars
    /\ [](got.some =>
            /\ got.res.fault <=> got.lit.var >= Len(held.assignment)
            /\ got.res.fault => pc = "aborted"
            /\ Len(held.assignment) <= num_vars)

C10_Witness ==
    /\ got.some
    /\ got.res.fault
    /\ got.lit.var < num_vars
    /\ Len(cnf_clauses) > 0

====
